---- MODULE Spec2Model ----
(***************************************************************************)
(* Nexora RiskVault (app.py): one run of the dashboard script, from the    *)
(* loaded log to the AMDEC summary table.  The script is a straight        *)
(* pipeline; each block of app.py is one action and pc names the block     *)
(* that runs next.  A run ends in "done", in "stopped" (st.stop(), no      *)
(* data) or in "aborted", with the exception pandas raised in error.       *)
(***************************************************************************)
EXTENDS Integers, Sequences, FiniteSets, TLC

VARIABLES pc, error,
          uploaded_file, use_demo,
          detect_default, critical_rpn, bruteforce_window, bruteforce_attempts,
          df,
          is_failed_login, bf_count, bruteforce_flag,
          scan_flag, suspicious_ip_flag,
          Severity, Probability, Detectability, RPN, Risk_Level,
          amdec

config == <<detect_default, critical_rpn, bruteforce_window, bruteforce_attempts>>
columns == <<is_failed_login, bf_count, bruteforce_flag, scan_flag, suspicious_ip_flag,
             Severity, Probability, Detectability, RPN, Risk_Level>>
vars == <<pc, error, uploaded_file, use_demo, config, df, columns, amdec>>

----------------------------------------------------------------------------
(* Bounds of the model.                                                    *)

\* rows of an uploaded log whose rows are drawn freely from EventSpace
MaxEvents == 4
\* repetitions of the heartbeat row in a bulk log
MaxPad == 9

----------------------------------------------------------------------------
(* Strings.  Event types are the only strings the script looks into        *)
(* (regex search, lower-casing, substring tests), so each has its          *)
(* characters spelled out; addresses and messages are only compared.       *)

Chars ==
       "failed_login" :> <<"f", "a", "i", "l", "e", "d", "_", "l", "o", "g", "i", "n">>
    @@ "Failed_Login" :> <<"F", "a", "i", "l", "e", "d", "_", "L", "o", "g", "i", "n">>
    @@ "failed_auth" :> <<"f", "a", "i", "l", "e", "d", "_", "a", "u", "t", "h">>
    @@ "login_failed" :> <<"l", "o", "g", "i", "n", "_", "f", "a", "i", "l", "e", "d">>
    @@ "conn_attempt" :> <<"c", "o", "n", "n", "_", "a", "t", "t", "e", "m", "p", "t">>
    @@ "conn" :> <<"c", "o", "n", "n">>
    @@ "portscan" :> <<"p", "o", "r", "t", "s", "c", "a", "n">>
    @@ "scan" :> <<"s", "c", "a", "n">>
    @@ "process_crash" :> <<"p", "r", "o", "c", "e", "s", "s", "_", "c", "r", "a", "s", "h">>
    @@ "critical" :> <<"c", "r", "i", "t", "i", "c", "a", "l">>
    @@ "error" :> <<"e", "r", "r", "o", "r">>
    @@ "warning" :> <<"w", "a", "r", "n", "i", "n", "g">>
    @@ "info" :> <<"i", "n", "f", "o">>
    @@ "success" :> <<"s", "u", "c", "c", "e", "s", "s">>
    @@ "failed" :> <<"f", "a", "i", "l", "e", "d">>
    @@ "login" :> <<"l", "o", "g", "i", "n">>
    @@ "process" :> <<"p", "r", "o", "c", "e", "s", "s">>

LowerChar ==
    "A" :> "a" @@ "B" :> "b" @@ "C" :> "c" @@ "D" :> "d" @@ "E" :> "e" @@ "F" :> "f"
 @@ "G" :> "g" @@ "H" :> "h" @@ "I" :> "i" @@ "J" :> "j" @@ "K" :> "k" @@ "L" :> "l"
 @@ "M" :> "m" @@ "N" :> "n" @@ "O" :> "o" @@ "P" :> "p" @@ "Q" :> "q" @@ "R" :> "r"
 @@ "S" :> "s" @@ "T" :> "t" @@ "U" :> "u" @@ "V" :> "v" @@ "W" :> "w" @@ "X" :> "x"
 @@ "Y" :> "y" @@ "Z" :> "z"

\* every event type of the demo data and of the uploaded logs, and null
EventTypes == DOMAIN Chars \cup {"NaN"}

\* str.lower()
Lower(s) == [i \in 1..Len(s) |-> IF s[i] \in DOMAIN LowerChar THEN LowerChar[s[i]] ELSE s[i]]

\* pat in s (Python substring test, case-sensitive)
Contains(s, pat) ==
    \E i \in 1..(Len(s) - Len(pat) + 1) : SubSeq(s, i, i + Len(pat) - 1) = pat

\* Series.str.contains("p1|p2|...", case=False, na=False) on one cell
StrContains(cell, pats, nullValue) ==
    IF cell = nullValue THEN FALSE
    ELSE \E p \in pats : Contains(Lower(Chars[cell]), Lower(Chars[p]))

----------------------------------------------------------------------------
(* Cell values.                                                            *)

\* a missing cell (NaN): empty CSV field, or a column the file does not have
Null == "NaN"
\* an unparseable timestamp after pd.to_datetime(errors="coerce")
NaT == -1

\* timestamps are seconds counted from 2025-11-01 09:01:00
IpAlice == "10.0.0.10"
IpCrash == "185.22.33.44"
IpTelnet == "203.0.113.9"
IpBob == "10.0.0.3"

Row(t, e, s, d, m) ==
    [timestamp |-> t, event_type |-> e, source_ip |-> s, destination_ip |-> d, message |-> m]

demo_df == <<
    Row(0,      "failed_login",  IpAlice,  "192.168.1.10", "Invalid password"),
    Row(10,     "failed_login",  IpAlice,  "192.168.1.10", "Invalid password"),
    Row(20,     "failed_login",  IpAlice,  "192.168.1.10", "Invalid password"),
    Row(97740,  "process_crash", IpCrash,  "192.168.1.20", "Service crash"),
    Row(176340, "conn_attempt",  IpTelnet, "192.168.1.30", "telnet"),
    Row(176345, "conn_attempt",  IpTelnet, "192.168.1.31", "telnet"),
    Row(176350, "conn_attempt",  IpTelnet, "192.168.1.32", "telnet"),
    Row(266340, "success",       IpBob,    "192.168.1.40", "OK") >>

suspicious_ips == {IpTelnet, IpCrash}

----------------------------------------------------------------------------
(* The uploaded logs the model draws from.                                 *)

TimeOrder == <<0, 10, 20, NaT>>
TypeOrder == <<"failed_login", "login_failed", "Failed_Login", "conn_attempt", "success", Null>>
IpOrder == <<IpAlice, IpTelnet>>
DestOrder == <<"192.168.1.30", "192.168.1.31", "192.168.1.32", Null>>
MsgOrder == <<"Invalid password", "telnet", "OK", Null>>

Range(seq) == {seq[i] : i \in 1..Len(seq)}
IndexOf(seq, x) == CHOOSE i \in 1..Len(seq) : seq[i] = x

LoginRows ==
    [timestamp : Range(TimeOrder), event_type : {"failed_login"}, source_ip : {IpAlice},
     destination_ip : {"192.168.1.30"}, message : {"Invalid password"}]
    \cup
    {Row(10, "login_failed", IpAlice, "192.168.1.30", "Invalid password"),
     Row(10, "Failed_Login", IpAlice, "192.168.1.30", "Invalid password"),
     Row(10, "failed_login", IpTelnet, "192.168.1.30", "Invalid password")}

ConnRows ==
    [timestamp : {0}, event_type : {"conn_attempt"}, source_ip : {IpAlice},
     destination_ip : Range(DestOrder), message : {"telnet"}]
    \cup
    [timestamp : {0}, event_type : {"conn_attempt"}, source_ip : {IpTelnet},
     destination_ip : {"192.168.1.30"}, message : {"telnet"}]

\* source_ip is present in every row: the input contract requires it
OtherRows ==
    {Row(0, "success", IpAlice, "192.168.1.30", "OK"),
     Row(0, "success", IpAlice, "192.168.1.30", Null),
     Row(0, Null, IpAlice, "192.168.1.30", "OK")}

EventSpace == LoginRows \cup ConnRows \cup OtherRows

\* the row a bulk log repeats
Heartbeat == Row(20, "success", IpAlice, "192.168.1.30", "OK")

\* Files are told apart by their rows, not by the order of the rows: every
\* block below reads the frame by value, after the sort of line 60.  Each
\* file is kept in one canonical row order (timestamp least significant, so
\* that the sort has work to do).
Rank(r) ==
    (((IndexOf(TypeOrder, r.event_type) * 8 + IndexOf(IpOrder, r.source_ip)) * 8
      + IndexOf(DestOrder, r.destination_ip)) * 8
      + IndexOf(MsgOrder, r.message)) * 8 + IndexOf(TimeOrder, r.timestamp)

RankOf == [r \in EventSpace |-> Rank(r)]

RECURSIVE Logs(_)
Logs(n) ==
    IF n = 0 THEN {<<>>}
    ELSE {Append(s, r) : <<s, r>> \in
            {p \in Logs(n - 1) \X EventSpace :
                n = 1 \/ RankOf[p[1][n - 1]] <= RankOf[p[2]]}}

SmallLogs == UNION {Logs(n) : n \in 1..MaxEvents}

\* rows drawn freely in front of the repeated heartbeat
BulkExtra == 2
BulkLogs ==
    {s \o [i \in 1..MaxPad |-> Heartbeat] : s \in UNION {Logs(n) : n \in 0..BulkExtra}}

\* st.sidebar.file_uploader: None, or the file with its rows
NoFile == [present |-> FALSE, rows |-> <<>>]
Uploads == {[present |-> TRUE, rows |-> s] : s \in SmallLogs \cup BulkLogs}

\* Sidebar settings.  Each widget bounds its value (lines 20-23); the values
\* taken here lie inside those ranges.
Defaults ==
    [detect_default |-> 5, critical_rpn |-> 200, bruteforce_window |-> 60,
     bruteforce_attempts |-> 3]
Settings ==
    {[Defaults EXCEPT !.bruteforce_window = w, !.bruteforce_attempts = a] :
        w \in {10, 60}, a \in {2, 3}}
    \cup
    {[Defaults EXCEPT !.detect_default = d, !.critical_rpn = c] :
        d \in {1, 10}, c \in {50, 200}}
----------------------------------------------------------------------------
(* Helpers over the frame.  A column is a sequence aligned with df; a      *)
(* column that does not exist yet is the empty sequence.                   *)

Rows == 1..Len(df)

Max(a, b) == IF a >= b THEN a ELSE b
Min(a, b) == IF a <= b THEN a ELSE b
MaxOf(S) == CHOOSE x \in S : \A y \in S : y <= x

\* DataFrame.sort_values("timestamp"): ascending, NaT last
TimeLE(a, b) == b = NaT \/ (a # NaT /\ a <= b)

RECURSIVE Insert(_, _)
Insert(sorted, r) ==
    IF sorted = <<>> THEN <<r>>
    ELSE IF TimeLE(sorted[Len(sorted)].timestamp, r.timestamp) THEN Append(sorted, r)
    ELSE Append(Insert(SubSeq(sorted, 1, Len(sorted) - 1), r), sorted[Len(sorted)])

RECURSIVE SortValues(_)
SortValues(rows) ==
    IF rows = <<>> THEN <<>>
    ELSE Insert(SortValues(SubSeq(rows, 1, Len(rows) - 1)), rows[Len(rows)])

----------------------------------------------------------------------------
(* Lines 14-23: the sidebar as the run finds it.                           *)

NoError == "none"

Init ==
    /\ pc = "load"
    /\ error = NoError
    /\ \/ uploaded_file \in Uploads /\ use_demo = TRUE
       \/ uploaded_file = NoFile /\ use_demo \in BOOLEAN
    /\ \E s \in Settings :
        /\ detect_default = s.detect_default
        /\ critical_rpn = s.critical_rpn
        /\ bruteforce_window = s.bruteforce_window
        /\ bruteforce_attempts = s.bruteforce_attempts
    /\ df = <<>>
    /\ is_failed_login = <<>> /\ bf_count = <<>> /\ bruteforce_flag = <<>>
    /\ scan_flag = <<>> /\ suspicious_ip_flag = <<>>
    /\ Severity = <<>> /\ Probability = <<>> /\ Detectability = <<>>
    /\ RPN = <<>> /\ Risk_Level = <<>>
    /\ amdec = {}

(* Lines 42-60: load the upload or the demo data, or stop; sort by time.   *)
Load ==
    /\ pc = "load"
    /\ IF uploaded_file.present
       THEN df' = SortValues(uploaded_file.rows) /\ pc' = "bruteforce"
       ELSE IF use_demo
       THEN df' = SortValues(demo_df) /\ pc' = "bruteforce"
       ELSE df' = df /\ pc' = "stopped"
    /\ UNCHANGED <<error, uploaded_file, use_demo, config, columns, amdec>>

----------------------------------------------------------------------------
(* Lines 62-83: brute-force detection.                                     *)

FailedLoginPatterns == {"failed_login", "failed_auth", "login_failed"}

\* line 64, on one cell; the verdict depends on the cell alone and is
\* tabulated once per event type
IsFailedLoginType(e) == StrContains(e, FailedLoginPatterns, Null)
FailedLoginTypes == {e \in EventTypes : IsFailedLoginType(e)}
IsFailedLogin(r) == r.event_type \in FailedLoginTypes

\* the count with the window open at its lower end
WindowCountOpen(rows, src, t, window) ==
    Cardinality({j \in 1..Len(rows) :
        /\ rows[j].event_type \in FailedLoginTypes
        /\ rows[j].source_ip = src
        /\ rows[j].timestamp # NaT
        /\ rows[j].timestamp > t - window
        /\ rows[j].timestamp <= t})

\* line 69: times = the valid timestamps of the failed logins of src, and
\* lines 73-74: how many of them lie in [t - window, t]
WindowCount(rows, src, t, window) ==
    Cardinality({j \in 1..Len(rows) :
        /\ IsFailedLogin(rows[j])
        /\ rows[j].source_ip = src
        /\ rows[j].timestamp # NaT
        /\ rows[j].timestamp >= t - window
        /\ rows[j].timestamp <= t})

\* lines 77-80: the write-back reaches every row of the frame with the
\* source and the timestamp of a counted failed login
BfWritten(rows, i) ==
    \E j \in 1..Len(rows) :
        /\ IsFailedLogin(rows[j])
        /\ rows[j].timestamp # NaT
        /\ rows[j].source_ip = rows[i].source_ip
        /\ rows[j].timestamp = rows[i].timestamp

\* line 82: fillna(0).astype(int)
BfCount(rows, i, window) ==
    IF BfWritten(rows, i)
    THEN WindowCount(rows, rows[i].source_ip, rows[i].timestamp, window)
    ELSE 0

\* the flag raised only above the threshold
BruteforceFlagStrict(count, attempts) == count > attempts

\* line 83
BruteforceFlag(count, attempts) == count >= attempts

BruteForce ==
    /\ pc = "bruteforce"
    /\ is_failed_login' = [i \in Rows |-> IsFailedLogin(df[i])]
    /\ IF \E i \in Rows : BfWritten(df, i)
       THEN /\ bf_count' = [i \in Rows |-> BfCount(df, i, bruteforce_window)]
            /\ bruteforce_flag' =
                 [i \in Rows |-> BruteforceFlag(BfCount(df, i, bruteforce_window),
                                                bruteforce_attempts)]
            /\ pc' = "scan" /\ error' = error
       ELSE \* no row was written: df["bf_count"] does not exist at line 82
            /\ UNCHANGED <<bf_count, bruteforce_flag>>
            /\ pc' = "aborted" /\ error' = "KeyError: 'bf_count'"
    /\ UNCHANGED <<uploaded_file, use_demo, config, df, scan_flag, suspicious_ip_flag,
                   Severity, Probability, Detectability, RPN, Risk_Level, amdec>>

----------------------------------------------------------------------------
(* Lines 85-99: scan detection and the suspicious-address list.            *)

ConnPatterns == {"conn_attempt", "conn", "portscan", "scan"}

\* line 87, on one cell
IsConnType(e) == StrContains(e, ConnPatterns, Null)
ConnTypes == {e \in EventTypes : IsConnType(e)}
IsConn(r) == r.event_type \in ConnTypes

\* the count with a missing destination taken for a destination
UniqueDestsWithNull(rows, src) ==
    Cardinality({rows[j].destination_ip : j \in
        {k \in 1..Len(rows) : rows[k].event_type \in ConnTypes /\ rows[k].source_ip = src}})

\* line 91: g["destination_ip"].nunique() over the connection rows of src
UniqueDests(rows, src) ==
    Cardinality({rows[j].destination_ip : j \in
        {k \in 1..Len(rows) : /\ IsConn(rows[k])
                              /\ rows[k].source_ip = src
                              /\ rows[k].destination_ip # Null}})

\* lines 92-95: every row of a source with connection rows takes the
\* source's flag; the other rows are filled with False
ScanFlag(rows, i) ==
    /\ \E j \in 1..Len(rows) : IsConn(rows[j]) /\ rows[j].source_ip = rows[i].source_ip
    /\ UniqueDests(rows, rows[i].source_ip) >= 3

Scan ==
    /\ pc = "scan"
    /\ IF \E i \in Rows : IsConn(df[i])
       THEN /\ scan_flag' = [i \in Rows |-> ScanFlag(df, i)]
            /\ suspicious_ip_flag' = [i \in Rows |-> df[i].source_ip \in suspicious_ips]
            /\ pc' = "score" /\ error' = error
       ELSE \* no connection row: df["scan_flag"] does not exist at line 95
            /\ UNCHANGED <<scan_flag, suspicious_ip_flag>>
            /\ pc' = "aborted" /\ error' = "KeyError: 'scan_flag'"
    /\ UNCHANGED <<uploaded_file, use_demo, config, df, is_failed_login, bf_count,
                   bruteforce_flag, Severity, Probability, Detectability, RPN,
                   Risk_Level, amdec>>
----------------------------------------------------------------------------
(* Lines 101-124: Severity, Probability, Detectability, RPN.               *)

sev_map ==
       "critical" :> 9 @@ "process_crash" :> 9 @@ "error" :> 8 @@ "failed_login" :> 7
    @@ "conn_attempt" :> 6 @@ "warning" :> 6 @@ "info" :> 3 @@ "success" :> 2

\* line 107, on one cell: str.lower().map(sev_map).fillna(5)
SevMapLookup(e) ==
    IF e = Null THEN 5
    ELSE LET hit == {k \in DOMAIN sev_map : Chars[k] = Lower(Chars[e])}
         IN  IF hit = {} THEN 5 ELSE sev_map[CHOOSE k \in hit : TRUE]
BaseSeverityTable == [e \in EventTypes |-> SevMapLookup(e)]
BaseSeverity(e) == BaseSeverityTable[e]

\* the flag's floor written over the severity
EscalateOverwrite(x, floor) == Min(9, floor)

\* the lambda of lines 110-112
Escalate(x, floor) == Min(9, Max(x, floor))

\* lines 110-112, in the order of the script
EscalatedSeverity(base, bf, scan, suspicious) ==
    LET s1 == IF bf THEN Escalate(base, 8) ELSE base
        s2 == IF scan THEN Escalate(s1, 7) ELSE s1
    IN  IF suspicious THEN Escalate(s2, 8) ELSE s2

\* line 115: rows per source
Freq(rows, src) == Cardinality({j \in 1..Len(rows) : rows[j].source_ip = src})

\* the top bucket entered only above 10 rows
ProbabilityBucketAbove(x) == IF x > 10 THEN 8 ELSE IF x >= 3 THEN 5 ELSE 3

\* line 118
ProbabilityBucket(x) == IF x >= 10 THEN 8 ELSE IF x >= 3 THEN 5 ELSE 3

Score ==
    /\ pc = "score"
    /\ Severity' = [i \in Rows |->
            EscalatedSeverity(BaseSeverity(df[i].event_type), bruteforce_flag[i],
                              scan_flag[i], suspicious_ip_flag[i])]
    /\ Probability' = [i \in Rows |-> ProbabilityBucket(Freq(df, df[i].source_ip))]
    /\ Detectability' = [i \in Rows |-> detect_default]
    /\ RPN' = [i \in Rows |-> Severity'[i] * Probability'[i] * Detectability'[i]]
    /\ pc' = "classify"
    /\ UNCHANGED <<error, uploaded_file, use_demo, config, df, is_failed_login, bf_count,
                   bruteforce_flag, scan_flag, suspicious_ip_flag, Risk_Level, amdec>>

----------------------------------------------------------------------------
(* Lines 126-131: risk level.                                              *)

classify(r, critical) ==
    IF r > critical THEN "Critical"
    ELSE IF r >= 100 THEN "Moderate"
    ELSE "Low"

Classify ==
    /\ pc = "classify"
    /\ Risk_Level' = [i \in Rows |-> classify(RPN[i], critical_rpn)]
    /\ pc' = "aggregate"
    /\ UNCHANGED <<error, uploaded_file, use_demo, config, df, is_failed_login, bf_count,
                   bruteforce_flag, scan_flag, suspicious_ip_flag, Severity, Probability,
                   Detectability, RPN, amdec>>

----------------------------------------------------------------------------
(* Lines 133-150: the AMDEC table, one row per event type.                 *)

\* lines 144-148
SuggestActionOf(evt) ==
    IF Contains(Chars[evt], Chars["failed_login"])
    THEN "Lock account / Investigate IP / Increase MFA"
    ELSE IF Contains(Chars[evt], Chars["conn_attempt"]) \/ Contains(Chars[evt], Chars["scan"])
    THEN "Block IP / Firewall rule / Threat intel"
    ELSE IF Contains(Chars[evt], Chars["process_crash"])
              \/ Contains(Chars[evt], Chars["critical"])
    THEN "Investigate service / Patch / Restore"
    ELSE "Monitor / Investigate"

SuggestedActionTable == [e \in EventTypes \ {Null} |-> SuggestActionOf(e)]
suggest_action(evt) == SuggestedActionTable[evt]

\* groupby(["event_type"]): the groups are the non-null keys
GroupKeys(rows) == {rows[i].event_type : i \in 1..Len(rows)} \ {Null}
Group(rows, e) == {i \in 1..Len(rows) : rows[i].event_type = e}

\* "source_ip": "nunique"
UniqueSources(rows, e) == Cardinality({rows[i].source_ip : i \in Group(rows, e)})

\* "message": "count" counts the cells of the group that are not null
Occurrences(rows, e) == Cardinality({i \in Group(rows, e) : rows[i].message # Null})

AmdecRow(e) ==
    [event_type       |-> e,
     Severity         |-> MaxOf({Severity[i] : i \in Group(df, e)}),
     Probability      |-> MaxOf({Probability[i] : i \in Group(df, e)}),
     Detectability    |-> MaxOf({Detectability[i] : i \in Group(df, e)}),
     RPN              |-> MaxOf({RPN[i] : i \in Group(df, e)}),
     unique_sources   |-> UniqueSources(df, e),
     occurrences      |-> Occurrences(df, e),
     Suggested_Action |-> suggest_action(e)]

Aggregate ==
    /\ pc = "aggregate"
    /\ amdec' = {AmdecRow(e) : e \in GroupKeys(df)}
    /\ pc' = "done"
    /\ UNCHANGED <<error, uploaded_file, use_demo, config, df, columns>>

----------------------------------------------------------------------------

Next == Load \/ BruteForce \/ Scan \/ Score \/ Classify \/ Aggregate

Spec == Init /\ [][Next]_vars

----------------------------------------------------------------------------
(* Where a run stands.                                                     *)

\* lines 64-83 ran to their end
BfPassed ==
    \/ pc \in {"scan", "score", "classify", "aggregate", "done"}
    \/ pc = "aborted" /\ error = "KeyError: 'scan_flag'"
\* lines 86-99 ran to their end
ScanPassed == pc \in {"score", "classify", "aggregate", "done"}
\* lines 103-124 ran to their end
ScorePassed == pc \in {"classify", "aggregate", "done"}
\* lines 127-131 ran to their end
ClassifyPassed == pc \in {"aggregate", "done"}

Sources == {df[i].source_ip : i \in Rows}
Valid(i) == df[i].timestamp # NaT

----------------------------------------------------------------------------
(* C1 *)

\* the failed logins of the source of row i in the closed interval
\* [t - window, t], t the timestamp of row i
BurstOf(i) ==
    {j \in Rows : /\ is_failed_login[j]
                  /\ df[j].source_ip = df[i].source_ip
                  /\ Valid(j)
                  /\ df[i].timestamp - bruteforce_window <= df[j].timestamp
                  /\ df[j].timestamp <= df[i].timestamp}

\* C1: after the brute-force pass, every failed login with a valid timestamp
\* t carries as bf_count the number of failed logins of its source in
\* [t - window, t], itself included, and is flagged exactly when that count
\* reaches the attempts threshold.
C1_BurstCount ==
    BfPassed =>
        \A i \in Rows :
            (IsFailedLoginType(df[i].event_type) /\ Valid(i)) =>
                /\ is_failed_login[i]
                /\ bf_count[i] = Cardinality(BurstOf(i))
                /\ bruteforce_flag[i] = (bf_count[i] >= bruteforce_attempts)

\* a failed login that counts an earlier one of its source on the edge of
\* its window, and has a still earlier one outside the window
C1_Witness ==
    /\ BfPassed
    /\ \E i, j, k \in Rows :
        /\ is_failed_login[i] /\ is_failed_login[j] /\ is_failed_login[k]
        /\ Valid(i) /\ Valid(j) /\ Valid(k)
        /\ df[j].source_ip = df[i].source_ip /\ df[k].source_ip = df[i].source_ip
        /\ df[j].timestamp = df[i].timestamp - bruteforce_window
        /\ df[k].timestamp < df[i].timestamp - bruteforce_window
        /\ bf_count[i] = 2

----------------------------------------------------------------------------
(* C2 *)

\* C2: every row that is not a failed login ends with bf_count = 0 and
\* bruteforce_flag = false.
C2_NonFailedLoginUntouched ==
    BfPassed =>
        \A i \in Rows :
            ~is_failed_login[i] => (bf_count[i] = 0 /\ ~bruteforce_flag[i])

----------------------------------------------------------------------------
(* C3 *)

FailedLoginsOf(s) == {i \in Rows : IsFailedLogin(df[i]) /\ df[i].source_ip = s}

\* source s has exactly three failed logins, at T, T+10 and T+20
ThreeInTwentySeconds(s) ==
    /\ Cardinality(FailedLoginsOf(s)) = 3
    /\ \A i \in FailedLoginsOf(s) : Valid(i)
    /\ \E T \in {df[i].timestamp : i \in FailedLoginsOf(s)} :
        {df[i].timestamp : i \in FailedLoginsOf(s)} = {T, T + 10, T + 20}

\* the earliest of the three
FirstOf(s) == CHOOSE T \in {df[i].timestamp : i \in FailedLoginsOf(s)} :
                \A i \in FailedLoginsOf(s) : T <= df[i].timestamp

\* C3 as stated: for a source with three failed logins at T, T+10, T+20:
\* with window 60 and threshold 3 all three end with bf_count = 3 and
\* flagged, and their severity, once scored, is at least 8; counted with a
\* window of 5 seconds each of the three has a count of 1 and is not flagged.
C3_AllThreeFlagged ==
    \A s \in Sources :
        ThreeInTwentySeconds(s) =>
            /\ (BfPassed /\ bruteforce_window = 60 /\ bruteforce_attempts = 3) =>
                    \A i \in FailedLoginsOf(s) : bf_count[i] = 3 /\ bruteforce_flag[i]
            /\ (ScorePassed /\ bruteforce_window = 60 /\ bruteforce_attempts = 3) =>
                    \A i \in FailedLoginsOf(s) : Severity[i] >= 8
            /\ \A i \in FailedLoginsOf(s) :
                    /\ BfCount(df, i, 5) = 1
                    /\ ~BruteforceFlag(BfCount(df, i, 5), 3)

\* C3 (amended): for a source with three failed logins at T, T+10, T+20:
\* with window 60 and threshold 3 the three end with bf_count 1, 2 and 3 in
\* time order, only the last one is flagged, and its severity, once scored,
\* is at least 8; counted with a window of 5 seconds each of the three has a
\* count of 1 and is not flagged.
C3_TrailingCounts ==
    \A s \in Sources :
        ThreeInTwentySeconds(s) =>
            /\ (BfPassed /\ bruteforce_window = 60 /\ bruteforce_attempts = 3) =>
                    \A i \in FailedLoginsOf(s) :
                        /\ bf_count[i] = ((df[i].timestamp - FirstOf(s)) \div 10) + 1
                        /\ bruteforce_flag[i] = (df[i].timestamp = FirstOf(s) + 20)
            /\ (ScorePassed /\ bruteforce_window = 60 /\ bruteforce_attempts = 3) =>
                    \A i \in FailedLoginsOf(s) :
                        df[i].timestamp = FirstOf(s) + 20 => Severity[i] >= 8
            /\ \A i \in FailedLoginsOf(s) :
                    /\ BfCount(df, i, 5) = 1
                    /\ ~BruteforceFlag(BfCount(df, i, 5), 3)

\* a finished run over such a source: the last failed login flagged and
\* escalated to 8, the first one counted alone and left at 7
C3_Witness ==
    /\ pc = "done"
    /\ bruteforce_window = 60 /\ bruteforce_attempts = 3
    /\ \E s \in Sources :
        /\ ThreeInTwentySeconds(s)
        /\ \E i, j \in FailedLoginsOf(s) :
            /\ bf_count[i] = 3 /\ bruteforce_flag[i] /\ Severity[i] = 8
            /\ bf_count[j] = 1 /\ ~bruteforce_flag[j] /\ Severity[j] = 7

----------------------------------------------------------------------------
(* C4 *)

\* event types that contain "conn" or "scan", whatever the case
ConnOrScanTypes == {e \in EventTypes : StrContains(e, {"conn", "scan"}, Null)}

\* the distinct non-null destinations of the connection rows of source s
DistinctDests(s) ==
    {df[i].destination_ip : i \in
        {j \in Rows : /\ df[j].event_type \in ConnOrScanTypes
                      /\ df[j].source_ip = s}} \ {Null}

----------------------------------------------------------------------------
(* C5 *)

\* rows of the whole input with the source of row i
OccurrencesOfSource(i) == Cardinality({j \in Rows : df[j].source_ip = df[i].source_ip})

\* C5: after scoring, for every row: RPN = Severity * Probability *
\* Detectability, Severity is in 1..9, Probability is 8 when the row's source
\* occurs 10 times or more in the input, 5 when 3 times or more, else 3, and
\* Detectability is the sidebar's default, which lies in 1..10.
C5_Scoring ==
    ScorePassed =>
        /\ detect_default \in 1..10
        /\ \A i \in Rows :
            /\ RPN[i] = Severity[i] * Probability[i] * Detectability[i]
            /\ Severity[i] \in 1..9
            /\ Probability[i] \in {3, 5, 8}
            /\ Probability[i] = 8 <=> OccurrencesOfSource(i) >= 10
            /\ Probability[i] = 5 <=> OccurrencesOfSource(i) \in 3..9
            /\ Detectability[i] = detect_default

\* a scored input with a source seen exactly 10 times (8), a source seen
\* fewer than 3 times (3), and a detectability off the default position
C5_Witness ==
    /\ ScorePassed
    /\ \E i, j \in Rows :
        /\ OccurrencesOfSource(i) = 10 /\ Probability[i] = 8
        /\ OccurrencesOfSource(j) < 3 /\ Probability[j] = 3
        /\ Detectability[i] = 10 /\ RPN[i] = Severity[i] * 80

----------------------------------------------------------------------------
(* C6 *)

\* C6: for every RPN and every threshold the sidebar accepts, the level is
\* Critical exactly when RPN > threshold, Moderate exactly when
\* 100 <= RPN <= threshold, and Low exactly when RPN < 100.
C6_Bands ==
    ClassifyPassed =>
        \A i \in Rows :
            /\ Risk_Level[i] = "Critical" <=> RPN[i] > critical_rpn
            /\ Risk_Level[i] = "Moderate" <=> (100 <= RPN[i] /\ RPN[i] <= critical_rpn)
            /\ Risk_Level[i] = "Low" <=> RPN[i] < 100

----------------------------------------------------------------------------
(* C7 *)

\* C7: the summary has exactly one row per event type present in the input,
\* each row's occurrences is the number of rows of that type, with or without
\* a message, and unique_sources <= occurrences in every row.
C7_Summary ==
    pc = "done" =>
        /\ {a.event_type : a \in amdec} = {df[i].event_type : i \in Rows} \ {Null}
        /\ Cardinality(amdec) = Cardinality({a.event_type : a \in amdec})
        /\ \A a \in amdec :
            /\ a.occurrences = Cardinality({i \in Rows : df[i].event_type = a.event_type})
            /\ a.unique_sources <= a.occurrences

----------------------------------------------------------------------------
(* C8 *)

\* C8: per-record defects never abort the run: a run over an input with the
\* required columns never ends in an exception, whether or not it holds a
\* failed login with a valid timestamp or a connection row; every row with
\* an unparseable timestamp ends with bf_count = 0, and every row with a
\* null event type is scored from the default severity 5.
C8_NeverAborts ==
    /\ pc # "aborted"
    /\ BfPassed => \A i \in Rows : ~Valid(i) => bf_count[i] = 0
    /\ ScorePassed => \A i \in Rows : df[i].event_type = Null => Severity[i] >= 5

----------------------------------------------------------------------------
(* C9 *)

\* the keyword table: the first rule that matches the event type decides
KeywordAction(e) ==
    IF Contains(Chars[e], Chars["failed"]) \/ Contains(Chars[e], Chars["login"])
    THEN "Lock account / Investigate IP / Increase MFA"
    ELSE IF Contains(Chars[e], Chars["conn"]) \/ Contains(Chars[e], Chars["scan"])
    THEN "Block IP / Firewall rule / Threat intel"
    ELSE IF Contains(Chars[e], Chars["process"]) \/ Contains(Chars[e], Chars["critical"])
    THEN "Investigate service / Patch / Restore"
    ELSE "Monitor / Investigate"

\* C9: the first matching rule on the event type decides the suggested
\* action of every summary row: "failed" or "login" -> account lockout; else
\* "conn" or "scan" -> block the address; else "process" or "critical" ->
\* investigate the service; else monitor.  Every type the brute-force
\* detector takes for a failed login gets the account lockout.
C9_SuggestedAction ==
    pc = "done" =>
        \A a \in amdec :
            /\ a.Suggested_Action = KeywordAction(a.event_type)
            /\ a.event_type \in FailedLoginTypes =>
                    a.Suggested_Action = "Lock account / Investigate IP / Increase MFA"

----------------------------------------------------------------------------
(* C10 *)

\* the event-type table: the lower-cased type decides, 5 when unmatched
TableSeverity(e) ==
    IF e = Null THEN 5
    ELSE LET l == Lower(Chars[e])
         IN  CASE l = Chars["critical"] -> 9
               [] l = Chars["process_crash"] -> 9
               [] l = Chars["error"] -> 8
               [] l = Chars["failed_login"] -> 7
               [] l = Chars["conn_attempt"] -> 6
               [] l = Chars["warning"] -> 6
               [] l = Chars["info"] -> 3
               [] l = Chars["success"] -> 2
               [] OTHER -> 5
TableSeverityOf == [e \in EventTypes |-> TableSeverity(e)]

\* C10: after scoring, every row's severity is at least its table severity
\* and at most 9, at least 8 when flagged brute-force, at least 7 when
\* flagged as a scan, at least 8 when its source is on the list, and exactly
\* the table severity when it carries none of the three flags.
C10_Escalation ==
    ScorePassed =>
        \A i \in Rows :
            /\ TableSeverityOf[df[i].event_type] <= Severity[i]
            /\ Severity[i] <= 9
            /\ bruteforce_flag[i] => Severity[i] >= 8
            /\ scan_flag[i] => Severity[i] >= 7
            /\ df[i].source_ip \in suspicious_ips => Severity[i] >= 8
            /\ (~bruteforce_flag[i] /\ ~scan_flag[i] /\ df[i].source_ip \notin suspicious_ips)
                    => Severity[i] = TableSeverityOf[df[i].event_type]

\* a scored input with a listed source whose table severity is already 9, a
\* row raised by a flag, and a row without flags
C10_Witness ==
    /\ ScorePassed
    /\ \E i, j, k \in Rows :
        /\ suspicious_ip_flag[i] /\ TableSeverityOf[df[i].event_type] = 9 /\ Severity[i] = 9
        /\ (bruteforce_flag[j] \/ scan_flag[j] \/ suspicious_ip_flag[j])
        /\ Severity[j] > TableSeverityOf[df[j].event_type]
        /\ ~bruteforce_flag[k] /\ ~scan_flag[k] /\ ~suspicious_ip_flag[k]
        /\ Severity[k] = TableSeverityOf[df[k].event_type]
====
